---------------------------- MODULE Spec2Model ----------------------------
(***************************************************************************)
(* elisa_matcher.py: discover -> collect -> fetch -> classify -> aggregate *)
(* pipeline under a wall-clock budget, with optional early stop.           *)
(*                                                                         *)
(* Python strings are modelled as sequences of one-character strings, so   *)
(* that lower/upper, replace, startswith/endswith, substring search and    *)
(* the whole-word regular expression of detect_analyte are computed the    *)
(* way the interpreter computes them.  The alphabet is ASCII and the       *)
(* blanks of Unicode.  A character that has no TLA+ string escape (a       *)
(* control character other than \t, \n, \f, \r, or a blank beyond ASCII)   *)
(* is the element "U+XXXX" named by its code point: "U+000B" is the        *)
(* vertical tab, "U+00A0" the no-break space.                              *)
(***************************************************************************)
EXTENDS Integers, Sequences, FiniteSets, TLC

(***************************************************************************)
(* str primitives                                                          *)
(***************************************************************************)
UpperChars == <<"A","B","C","D","E","F","G","H","I","J","K","L","M",
                "N","O","P","Q","R","S","T","U","V","W","X","Y","Z">>

LowerChars == <<"a","b","c","d","e","f","g","h","i","j","k","l","m",
                "n","o","p","q","r","s","t","u","v","w","x","y","z">>

DigitChars == {"0","1","2","3","4","5","6","7","8","9"}

UpperSet == {UpperChars[i] : i \in 1..Len(UpperChars)}

LowerSet == {LowerChars[i] : i \in 1..Len(LowerChars)}

\* None of the Python code.  Where a str, list or tuple may be None instead
\* (args.domains, the results of detect_analyte and fetch_page) the code
\* tests it by truth value only, so that None and the empty sequence, which
\* behave alike there, are one value.
None == <<>>

LowerOf == [c \in UpperSet |-> LowerChars[CHOOSE i \in 1..Len(UpperChars) : UpperChars[i] = c]]

UpperOf == [c \in LowerSet |-> UpperChars[CHOOSE i \in 1..Len(LowerChars) : LowerChars[i] = c]]

\* str.lower()
lower(s) == [i \in 1..Len(s) |-> IF s[i] \in UpperSet THEN LowerOf[s[i]] ELSE s[i]]

\* str.upper()
upper(s) == [i \in 1..Len(s) |-> IF s[i] \in LowerSet THEN UpperOf[s[i]] ELSE s[i]]

\* \w of the re module (ASCII part)
IsWordChar(c) == c \in UpperSet \cup LowerSet \cup DigitChars \cup {"_"}

\* \s of the re module on a str pattern, the whitespace of str.strip(), the
\* characters of str.isspace(): U+0009..U+000D, U+001C..U+001F, U+0020,
\* U+0085, U+00A0, U+1680, U+2000..U+200A, U+2028, U+2029, U+202F, U+205F,
\* U+3000
Whitespace ==
    {"\t", "\n", "U+000B", "\f", "\r", "U+001C", "U+001D", "U+001E", "U+001F", " ",
     "U+0085", "U+00A0", "U+1680",
     "U+2000", "U+2001", "U+2002", "U+2003", "U+2004", "U+2005", "U+2006",
     "U+2007", "U+2008", "U+2009", "U+200A",
     "U+2028", "U+2029", "U+202F", "U+205F", "U+3000"}

IsSpace(c) == c \in Whitespace

\* the elements of a list, the characters of a str
Elems(seq) == {seq[i] : i \in 1..Len(seq)}

Min(S) == CHOOSE x \in S : \A y \in S : x <= y

\* str.startswith(p)
startswith(s, p) == Len(p) <= Len(s) /\ SubSeq(s, 1, Len(p)) = p

\* str.endswith(p)
endswith(s, p) == Len(p) <= Len(s) /\ SubSeq(s, Len(s) - Len(p) + 1, Len(s)) = p

\* p in s
contains(s, p) == \E i \in 1..(Len(s) - Len(p) + 1) : SubSeq(s, i, i + Len(p) - 1) = p

\* str.replace(old, new): non-overlapping occurrences, left to right
RECURSIVE replace(_, _, _)
replace(s, old, new) ==
    IF s = <<>> \/ old = <<>> THEN s
    ELSE IF startswith(s, old)
         THEN new \o replace(SubSeq(s, Len(old) + 1, Len(s)), old, new)
         ELSE <<s[1]>> \o replace(Tail(s), old, new)

\* str.strip()
RECURSIVE lstrip(_)
lstrip(s) == IF s # <<>> /\ IsSpace(s[1]) THEN lstrip(Tail(s)) ELSE s

RECURSIVE rstrip(_)
rstrip(s) == IF s # <<>> /\ IsSpace(s[Len(s)]) THEN rstrip(SubSeq(s, 1, Len(s) - 1)) ELSE s

strip(s) == rstrip(lstrip(s))

\* re.sub(r"\s+", " ", s)
RECURSIVE collapse_ws(_)
collapse_ws(s) ==
    IF s = <<>> THEN <<>>
    ELSE IF IsSpace(s[1])
         THEN <<" ">> \o collapse_ws(lstrip(s))
         ELSE <<s[1]>> \o collapse_ws(Tail(s))

\* re.search(rf"\b{re.escape(w)}\b", s): w occurs in s between two word
\* boundaries.  A boundary lies between positions p and p+1 iff exactly one
\* of s[p], s[p+1] is a word character (outside the string counts as not).
WordAt(s, p) == p >= 1 /\ p <= Len(s) /\ IsWordChar(s[p])

Boundary(s, p) == WordAt(s, p) # WordAt(s, p + 1)

search_word(w, s) ==
    \E i \in 1..(Len(s) - Len(w) + 1) :
        /\ SubSeq(s, i, i + Len(w) - 1) = w
        /\ Boundary(s, i - 1)
        /\ Boundary(s, i + Len(w) - 1)

\* the characters of s before the first one of stops
RECURSIVE take_until(_, _)
take_until(s, stops) ==
    IF s = <<>> \/ s[1] \in stops THEN <<>> ELSE <<s[1]>> \o take_until(Tail(s), stops)

\* str.split(sep) for a one-character sep
RECURSIVE split(_, _)
split(s, sep) ==
    LET first == take_until(s, {sep})
    IN IF Len(first) = Len(s) THEN <<first>>
       ELSE <<first>> \o split(SubSeq(s, Len(first) + 2, Len(s)), sep)

\* str.lstrip(chars)
RECURSIVE lstrip_chars(_, _)
lstrip_chars(s, chars) ==
    IF s # <<>> /\ s[1] \in chars THEN lstrip_chars(Tail(s), chars) ELSE s

(***************************************************************************)
(* urlparse(url).netloc of line 46, as urllib.parse.urlsplit computes it:  *)
(* leading C0 control characters and blanks are stripped, tab, CR and LF   *)
(* are removed wherever they stand, a scheme is split off, and what        *)
(* follows "//" up to the next "/", "?" or "#" is the netloc.  A netloc    *)
(* with one bracket but not the other, or with brackets around something   *)
(* that is neither an IPv6 nor an IPvFuture address, raises ValueError.    *)
(***************************************************************************)
\* _WHATWG_C0_CONTROL_OR_SPACE: U+0000..U+0020
C0_CONTROL_OR_SPACE ==
    {"U+0000", "U+0001", "U+0002", "U+0003", "U+0004", "U+0005", "U+0006",
     "U+0007", "U+0008", "\t", "\n", "U+000B", "\f", "\r", "U+000E", "U+000F",
     "U+0010", "U+0011", "U+0012", "U+0013", "U+0014", "U+0015", "U+0016",
     "U+0017", "U+0018", "U+0019", "U+001A", "U+001B", "U+001C", "U+001D",
     "U+001E", "U+001F", " "}

\* _UNSAFE_URL_BYTES_TO_REMOVE
UNSAFE_URL_BYTES_TO_REMOVE == {"\t", "\r", "\n"}

IsSchemeChar(c) == c \in UpperSet \cup LowerSet \cup DigitChars \cup {"+", "-", "."}

HexDigits == DigitChars \cup {"a","b","c","d","e","f","A","B","C","D","E","F"}

DecimalDigits == <<"0","1","2","3","4","5","6","7","8","9">>

\* int(s, 10) of a string of decimal digits
RECURSIVE int10(_)
int10(s) ==
    IF s = <<>> THEN 0
    ELSE 10 * int10(SubSeq(s, 1, Len(s) - 1))
         + (CHOOSE d \in 0..9 : DecimalDigits[d + 1] = s[Len(s)])

\* ipaddress._BaseV4._parse_octet(octet_str) does not raise
parse_octet(octet_str) ==
    /\ octet_str # <<>>
    /\ \A i \in 1..Len(octet_str) : octet_str[i] \in DigitChars
    /\ Len(octet_str) <= 3
    /\ (octet_str = <<"0">> \/ octet_str[1] # "0")
    /\ int10(octet_str) <= 255

\* the octets of an IPv4 address: four, each parsed
parse_octets(octets) ==
    /\ Len(octets) = 4
    /\ \A i \in 1..4 : parse_octet(octets[i])

\* ipaddress.IPv4Address(ip_str) does not raise
IsIPv4Address(ip_str) == ip_str # <<>> /\ parse_octets(split(ip_str, "."))

\* ipaddress._BaseV6._parse_hextet(hextet_str) does not raise
parse_hextet(hextet_str) ==
    /\ \A i \in 1..Len(hextet_str) : hextet_str[i] \in HexDigits
    /\ Len(hextet_str) <= 4
    /\ hextet_str # <<>>

\* _ip_int_from_string with a "::" at parts[skip]: hi hextets stand before
\* it and lo after it
parse_skipped(parts, skip, hi, lo) ==
    /\ parts[1] = <<>> => hi = 1
    /\ parts[Len(parts)] = <<>> => lo = 1
    /\ 8 - ( (IF parts[1] = <<>> THEN 0 ELSE hi)
           + (IF parts[Len(parts)] = <<>> THEN 0 ELSE lo) ) >= 1
    /\ \A i \in 1..Len(parts) :
          ( \/ i <= (IF parts[1] = <<>> THEN 0 ELSE hi)
            \/ i > Len(parts) - (IF parts[Len(parts)] = <<>> THEN 0 ELSE lo) )
          => parse_hextet(parts[i])

\* _ip_int_from_string on the parts between the colons, empties the
\* positions of the empty ones among the inner parts
parse_parts(parts, empties) ==
    /\ Len(parts) <= 9
    /\ Cardinality(empties) <= 1
    /\ IF empties # {}
       THEN parse_skipped(parts, Min(empties), Min(empties) - 1,
                          Len(parts) - Min(empties))
       ELSE /\ Len(parts) = 8
            /\ \A i \in 1..8 : parse_hextet(parts[i])

\* an IPv4 address in the last part is replaced by its two hextets
with_ipv4_tail(parts) ==
    IF "." \in Elems(parts[Len(parts)])
    THEN SubSeq(parts, 1, Len(parts) - 1) \o << <<"0">>, <<"0">> >>
    ELSE parts

\* ipaddress._BaseV6._ip_int_from_string(ip_str) does not raise, parts being
\* ip_str.split(":")
ip_int_from_parts(parts) ==
    /\ Len(parts) >= 3
    /\ "." \in Elems(parts[Len(parts)]) => IsIPv4Address(parts[Len(parts)])
    /\ parse_parts(with_ipv4_tail(parts),
                   {i \in 2..(Len(with_ipv4_tail(parts)) - 1) :
                       with_ipv4_tail(parts)[i] = <<>>})

\* ipaddress.IPv6Address._split_scope_id(ip_str) does not raise, addr being
\* what stands before the first "%"
split_scope_id(ip_str, addr) ==
    \/ Len(addr) = Len(ip_str)
    \/ /\ Len(addr) + 1 < Len(ip_str)
       /\ \A i \in (Len(addr) + 2)..Len(ip_str) : ip_str[i] # "%"

\* ipaddress.IPv6Address(address) does not raise, addr being what stands
\* before the first "%"
ipv6_of(address, addr) ==
    /\ split_scope_id(address, addr)
    /\ addr # <<>>
    /\ ip_int_from_parts(split(addr, ":"))

IsIPv6Address(address) == ipv6_of(address, take_until(address, {"%"}))

\* hostname matches \Av[a-fA-F0-9]+\..+\Z, dot being the place of its
\* first "."
is_ipvfuture(hostname, dot) ==
    /\ dot >= 3
    /\ dot < Len(hostname)
    /\ \A i \in 2..(dot - 1) : hostname[i] \in HexDigits
    /\ \A i \in (dot + 1)..Len(hostname) : hostname[i] # "\n"

\* _check_bracketed_host(hostname) does not raise: an IPvFuture address, or,
\* if it does not start with "v", an IPv6 address
check_bracketed_host(hostname) ==
    IF startswith(hostname, <<"v">>)
    THEN is_ipvfuture(hostname, Len(take_until(hostname, {"."})) + 1)
    ELSE IsIPv6Address(hostname)

\* the ValueError urlsplit raises
ValueError == <<"ValueError">>

\* netloc.partition("[")[2].partition("]")[0]
bracketed_host(nl) ==
    take_until(SubSeq(nl, Len(take_until(nl, {"["})) + 2, Len(nl)), {"]"})

\* the checks of the brackets of a netloc
checked(nl) ==
    IF ("[" \in Elems(nl)) # ("]" \in Elems(nl)) THEN ValueError
    ELSE IF "[" \in Elems(nl) /\ ~check_bracketed_host(bracketed_host(nl))
         THEN ValueError
         ELSE nl

\* url without the scheme in front of it, if it has one
without_scheme(url, scheme) ==
    IF /\ Len(scheme) < Len(url)
       /\ scheme # <<>>
       /\ scheme[1] \in UpperSet \cup LowerSet
       /\ \A i \in 1..Len(scheme) : IsSchemeChar(scheme[i])
    THEN SubSeq(url, Len(scheme) + 2, Len(url))
    ELSE url

\* _splitnetloc(url, 2) and the checks, if url[:2] == "//"
splitnetloc(url) ==
    IF startswith(url, <<"/","/">>)
    THEN checked(take_until(SubSeq(url, 3, Len(url)), {"/", "?", "#"}))
    ELSE <<>>

\* url.lstrip(_WHATWG_C0_CONTROL_OR_SPACE) without tab, CR and LF
cleaned(url) ==
    SelectSeq(lstrip_chars(url, C0_CONTROL_OR_SPACE),
              LAMBDA c : c \notin UNSAFE_URL_BYTES_TO_REMOVE)

\* the scheme is what stands before the first ":"
after_scheme(url) == without_scheme(url, take_until(url, {":"}))

netloc(url) == splitnetloc(after_scheme(cleaned(url)))

(***************************************************************************)
(* Pure functions of elisa_matcher.py                                      *)
(***************************************************************************)
WWW == <<"w","w","w",".">>

\* .lower().replace("www.", "") of a netloc, if there is one
without_www(nl) == IF nl = ValueError THEN ValueError ELSE replace(lower(nl), WWW, <<>>)

\* def vendor(url): the netloc in lower case without "www.", or the
\* ValueError of urlparse
vendor(url) == without_www(netloc(url))

\* def norm(s)
norm(s) == strip(collapse_ws(s))

MOUSE == <<"m","o","u","s","e">>

MUS_MUSCULUS == <<"m","u","s"," ","m","u","s","c","u","l","u","s">>

MICE == <<"m","i","c","e">>

\* def species_ok(text, species)
species_ok(text, species) ==
    LET s == lower(strip(species))
        t == lower(text)
    IN IF s = <<>> THEN TRUE
       ELSE contains(t, s)
            \/ (s = MOUSE /\ (contains(t, MUS_MUSCULUS) \/ contains(t, MICE)))

\* def samples_ok(text, sample_terms)
samples_ok(text, sample_terms) ==
    IF sample_terms = <<>> THEN TRUE
    ELSE \E i \in 1..Len(sample_terms) : contains(lower(text), lower(sample_terms[i]))

\* aliases = {"CXCL10": ["IP-10", "IP10", "CRG-2", "CRG2", "INTERFERON GAMMA
\* INDUCED PROTEIN 10"]}, a dict in insertion order
NOX4 == <<"N","O","X","4">>

CXCL10 == <<"C","X","C","L","1","0">>

aliases == <<
    [canon |-> CXCL10,
     alist |-> << <<"I","P","-","1","0">>,
                  <<"I","P","1","0">>,
                  <<"C","R","G","-","2">>,
                  <<"C","R","G","2">>,
                  <<"I","N","T","E","R","F","E","R","O","N"," ","G","A","M","M","A"," ",
                    "I","N","D","U","C","E","D"," ","P","R","O","T","E","I","N"," ","1","0">> >>]
>>

Max(S) == CHOOSE x \in S : \A y \in S : x >= y

\* detect_analyte with the loops of lines 69 and 72 keeping the last match
\* instead of returning at the first
detect_analyte_last(blob, analytes, als) ==
    LET up    == upper(blob)
        exact == {i \in 1..Len(analytes) : search_word(upper(analytes[i]), up)}
        byAl  == {k \in 1..Len(als) :
                    /\ als[k].canon \in Elems(analytes)
                    /\ \E j \in 1..Len(als[k].alist) :
                          search_word(upper(als[k].alist[j]), up)}
    IN IF exact # {} THEN analytes[Max(exact)]
       ELSE IF byAl # {} THEN als[Max(byAl)].canon
       ELSE None

\* def detect_analyte(blob, analytes, aliases)
detect_analyte(blob, analytes, als) ==
    LET up    == upper(blob)
        exact == {i \in 1..Len(analytes) : search_word(upper(analytes[i]), up)}
        byAl  == {k \in 1..Len(als) :
                    /\ als[k].canon \in Elems(analytes)
                    /\ \E j \in 1..Len(als[k].alist) :
                          search_word(upper(als[k].alist[j]), up)}
    IN IF exact # {} THEN analytes[Min(exact)]
       ELSE IF byAl # {} THEN als[Min(byAl)].canon
       ELSE None

HTTP == <<"h","t","t","p",":","/","/">>

HTTPS == <<"h","t","t","p","s",":","/","/">>

\* resp of fetch_page below is what the transport and the HTML
\* extraction deliver, [url, title, text], or Failed for any exception raised
\* inside the try block (network error, timeout, non-2xx, parse error)
Failed == [failed |-> TRUE]

\* fetch_page without r.raise_for_status() and without the except clause's
\* None: the body of an error response is taken for the page (no title, no
\* text), its URL for the final URL
fetch_page_unchecked(url, resp) ==
    IF resp = Failed THEN <<url, url, <<"\n">>>>
    ELSE LET title == IF resp.title # <<>> THEN norm(resp.title) ELSE <<>>
             text  == norm(resp.text)
         IN <<url, resp.url, title \o <<"\n">> \o text>>

\* def fetch_page(url, session, timeout, ua)
fetch_page(url, resp) ==
    IF resp = Failed THEN None
    ELSE LET title == IF resp.title # <<>> THEN norm(resp.title) ELSE <<>>
             text  == norm(resp.text)
         IN <<url, resp.url, title \o <<"\n">> \o text>>

\* class PageHit
PageHit(final_url, vend, analyte, title, species_found, samples_found, has_elisa) ==
    [final_url |-> final_url, vendor |-> vend, analyte |-> analyte, title |-> title,
     species_found |-> species_found, samples_found |-> samples_found,
     has_elisa |-> has_elisa]

\* keep() without the test of has_elisa
keep_no_elisa(ph, require_species, require_samples, require_elisa) ==
    IF require_species /\ ~ph.species_found THEN FALSE
    ELSE IF require_samples /\ ~ph.samples_found THEN FALSE
    ELSE TRUE

\* def keep(ph, require_species, require_samples, require_elisa)
keep(ph, require_species, require_samples, require_elisa) ==
    IF require_species /\ ~ph.species_found THEN FALSE
    ELSE IF require_samples /\ ~ph.samples_found THEN FALSE
    ELSE IF require_elisa /\ ~ph.has_elisa THEN FALSE
    ELSE TRUE

\* the loop of match_by_vendor with out[v][a] = [ph] for out[v][a].append(ph)
RECURSIVE ingest_last(_, _, _)
ingest_last(pagehits, analytes, out) ==
    IF pagehits = <<>> THEN out
    ELSE LET ph == Head(pagehits)
             o1 == IF ph.vendor \in DOMAIN out THEN out
                   ELSE [v \in DOMAIN out \cup {ph.vendor} |->
                            IF v \in DOMAIN out THEN out[v]
                            ELSE [a \in Elems(analytes) |-> <<>>]]
             o2 == [o1 EXCEPT ![ph.vendor][ph.analyte] = <<ph>>]
         IN ingest_last(Tail(pagehits), analytes, o2)

\* the loop of match_by_vendor: out.setdefault(...); out[v][a].append(ph)
RECURSIVE ingest(_, _, _)
ingest(pagehits, analytes, out) ==
    IF pagehits = <<>> THEN out
    ELSE LET ph == Head(pagehits)
             o1 == IF ph.vendor \in DOMAIN out THEN out
                   ELSE [v \in DOMAIN out \cup {ph.vendor} |->
                            IF v \in DOMAIN out THEN out[v]
                            ELSE [a \in Elems(analytes) |-> <<>>]]
             o2 == [o1 EXCEPT ![ph.vendor][ph.analyte] = Append(@, ph)]
         IN ingest(Tail(pagehits), analytes, o2)

\* match_by_vendor with any() for all() in line 138
match_by_vendor_any(pagehits, analytes) ==
    LET out == ingest(pagehits, analytes, <<>>)
        some == {v \in DOMAIN out : \E a \in Elems(analytes) : out[v][a] # <<>>}
    IN [v \in some |-> out[v]]

\* def match_by_vendor(pagehits, analytes): vendor -> analyte -> list of hits,
\* restricted to the vendors with a non-empty list for every analyte
match_by_vendor(pagehits, analytes) ==
    LET out == ingest(pagehits, analytes, <<>>)
        full == {v \in DOMAIN out : \A a \in Elems(analytes) : out[v][a] # <<>>}
    IN [v \in full |-> out[v]]

(***************************************************************************)
(* DEFAULT_DOMAINS (lines 14-42)                                           *)
(***************************************************************************)
DEFAULT_DOMAINS == <<
    <<"f","n","-","t","e","s","t",".","c","o","m">>,
    <<"n","o","v","u","s","b","i","o",".","c","o","m">>,
    <<"k","r","i","s","h","g","e","n",".","c","o","m">>,
    <<"n","o","v","a","t","e","i","n","b","i","o",".","c","o","m">>,
    <<"r","n","d","s","y","s","t","e","m","s",".","c","o","m">>,
    <<"b","i","o","-","t","e","c","h","n","e",".","c","o","m">>,
    <<"a","b","c","a","m",".","c","o","m">>,
    <<"t","h","e","r","m","o","f","i","s","h","e","r",".","c","o","m">>,
    <<"s","i","g","m","a","a","l","d","r","i","c","h",".","c","o","m">>,
    <<"m","e","r","c","k","m","i","l","l","i","p","o","r","e",".","c","o","m">>,
    <<"m","y","b","i","o","s","o","u","r","c","e",".","c","o","m">>,
    <<"a","n","t","i","b","o","d","i","e","s","-","o","n","l","i","n","e",".","c","o","m">>,
    <<"l","s","b","i","o",".","c","o","m">>,
    <<"a","s","s","a","y","g","e","n","i","e",".","c","o","m">>,
    <<"c","l","o","u","d","-","c","l","o","n","e",".","c","o","m">>,
    <<"c","u","s","a","b","i","o",".","c","o","m">>,
    <<"e","l","a","b","s","c","i","e","n","c","e",".","c","o","m">>,
    <<"b","i","o","m","a","t","i","k",".","c","o","m">>,
    <<"l","i","f","e","s","p","a","n","b","i","o",".","c","o","m">>,
    <<"s","i","n","o","-","b","i","o","l","o","g","i","c","a","l",".","c","o","m">>,
    <<"r","a","y","b","i","o","t","e","c","h",".","c","o","m">>,
    <<"b","o","s","t","e","r","b","i","o",".","c","o","m">>,
    <<"g","e","n","e","t","e","x",".","c","o","m">>,
    <<"f","i","s","h","e","r","s","c","i",".","c","o","m">>,
    <<"v","w","r",".","c","o","m">>
>>

(***************************************************************************)
(* The environment: the URLs the search backend may return and what the    *)
(* web serves for each of them.                                            *)
(***************************************************************************)
\* "https://www.abcam.com/nox4"
U_ABCAM_NOX4 == <<"h","t","t","p","s",":","/","/","w","w","w",".","a","b","c","a","m",".","c","o","m","/","n","o","x","4">>

\* "https://shop.abcam.com/k2"
U_SHOP_K2 == <<"h","t","t","p","s",":","/","/","s","h","o","p",".","a","b","c","a","m",".","c","o","m","/","k","2">>

\* "https://www.abcam.com/k2", where shop.abcam.com/k2 redirects to
U_ABCAM_K2 == <<"h","t","t","p","s",":","/","/","w","w","w",".","a","b","c","a","m",".","c","o","m","/","k","2">>

\* "https://notabcam.com/nox4"
U_NOTABCAM == <<"h","t","t","p","s",":","/","/","n","o","t","a","b","c","a","m",".","c","o","m","/","n","o","x","4">>

\* "ftp://abcam.com/nox4"
U_FTP == <<"f","t","p",":","/","/","a","b","c","a","m",".","c","o","m","/","n","o","x","4">>

\* "https://awww.vwr.com/il6"
U_AWWW == <<"h","t","t","p","s",":","/","/","a","w","w","w",".","v","w","r",".","c","o","m","/","i","l","6">>

\* "https://www.abcam.com/nox4-96", where awww.vwr.com/il6 redirects to: a
\* second page of the vendor abcam.com for NOX4
U_ABCAM_NOX4_96 == <<"h","t","t","p","s",":","/","/","w","w","w",".","a","b","c","a","m",".","c","o","m","/","n","o","x","4","-","9","6">>

\* the hrefs a search result may carry
URLS == {U_ABCAM_NOX4, U_SHOP_K2, U_NOTABCAM, U_FTP, U_AWWW}

\* "https://[abc/x", an href urlparse() rejects: "[" without "]"
U_BRACKET == <<"h","t","t","p","s",":","/","/","[","a","b","c","/","x">>

\* "rat NOX4 assay"
RAT_NOX4_ASSAY == <<"r","a","t"," ","N","O","X","4"," ","a","s","s","a","y">>

\* what a successful GET of each URL delivers: the final URL after redirects,
\* soup.title.text and soup.get_text(" ")
Web ==
    U_ABCAM_NOX4 :>
        [url   |-> U_ABCAM_NOX4,
         \* "NOX4 Kit"
         title |-> <<"N","O","X","4"," ","K","i","t">>,
         \* "NOX4 Kit  Mouse NOX4 ELISA\n serum "
         text  |-> <<"N","O","X","4"," ","K","i","t"," "," ","M","o","u","s","e"," ","N","O","X","4"," ","E","L","I","S","A","\n"," ","s","e","r","u","m"," ">>]
 @@ U_SHOP_K2 :>
        [url   |-> U_ABCAM_K2,
         \* "IP-10 kit"
         title |-> <<"I","P","-","1","0"," ","k","i","t">>,
         \* " IP-10 kit ELISA for mice plasma"
         text  |-> <<" ","I","P","-","1","0"," ","k","i","t"," ","E","L","I","S","A"," ","f","o","r"," ","m","i","c","e"," ","p","l","a","s","m","a">>]
 @@ U_NOTABCAM :>
        [url |-> U_NOTABCAM, title |-> <<>>, text |-> RAT_NOX4_ASSAY]
 @@ U_AWWW :>
        [url   |-> U_ABCAM_NOX4_96,
         \* "NOX4 x96"
         title |-> <<"N","O","X","4"," ","x","9","6">>,
         \* "NOX4 x96 ELISA mouse serum NOX41"
         text  |-> <<"N","O","X","4"," ","x","9","6"," ","E","L","I","S","A"," ","m","o","u","s","e"," ","s","e","r","u","m"," ","N","O","X","4","1">>]

\* hashlib.sha1(url.encode("utf-8")).hexdigest()[:12] of each URL above
SHA1_12 ==
    U_ABCAM_NOX4 :> "c65acd6d3858"
 @@ U_SHOP_K2    :> "7e34bb644014"
 @@ U_NOTABCAM   :> "704b0acd4983"
 @@ U_FTP        :> "7a53dd213bd2"
 @@ U_AWWW       :> "2e146f727c0e"

\* allow_domains: Optional[Set[str]]; its None is the distinguished value
\* NoDomains (a set, so that it compares with the sets of domains)
NoDomains == {<<"None">>}

\* vendor(u) of every href, computed once
VENDOR == [u \in URLS \cup {U_BRACKET} |-> vendor(u)]

\* the domain test with dom.endswith(d) for dom.endswith("." + d)
allowed_nodot(u, allow_domains) ==
    LET dom == VENDOR[u]
    IN ~ ( /\ allow_domains # NoDomains
           /\ allow_domains # {}
           /\ ~ ( \/ dom \in allow_domains
                  \/ \E d \in allow_domains : endswith(dom, d) ) )

\* the domain test of to_urls (lines 93-94)
allowed(u, allow_domains) ==
    LET dom == VENDOR[u]
    IN ~ ( /\ allow_domains # NoDomains
           /\ allow_domains # {}
           /\ ~ ( \/ dom \in allow_domains
                  \/ \E d \in allow_domains : endswith(dom, <<".">> \o d) ) )

\* to_urls raises: line 93 computes vendor(u) for every href that starts with
\* "http://" or "https://", before the domain test, and nothing catches the
\* ValueError of urlparse
to_urls_raises(results) ==
    \E i \in 1..Len(results) :
        /\ startswith(results[i], HTTP) \/ startswith(results[i], HTTPS)
        /\ VENDOR[results[i]] = ValueError

\* def to_urls(results, allow_domains); a result is modelled by its href.
\* The list <<ValueError>> stands for the exception raised.
to_urls(results, allow_domains) ==
    IF to_urls_raises(results) THEN <<ValueError>>
    ELSE SelectSeq(results,
                   LAMBDA u : /\ (startswith(u, HTTP) \/ startswith(u, HTTPS))
                              /\ allowed(u, allow_domains))

\* def sid(url)
sid(url) == SHA1_12[url]

\* "  ", a blank --analytes value
BLANK == <<" "," ">>

\* "WWW.Abcam.com", "notabcam.com" and "awww.vwr.com", three --domains values
ARG_ABCAM == <<"W","W","W",".","A","b","c","a","m",".","c","o","m">>

ARG_NOTABCAM == <<"n","o","t","a","b","c","a","m",".","c","o","m">>

ARG_AWWW == <<"a","w","w","w",".","v","w","r",".","c","o","m">>

\* "elisa"
ELISA == <<"e","l","i","s","a">>

(***************************************************************************)
(* Bounds of the model                                                     *)
(***************************************************************************)
\* largest --max-fetch tried
MaxFetch == 3

\* largest --workers tried
MaxWorkers == 2

\* most results one ddg_search call returns, a repeated href apart
MaxResults == 2

\* what one ddg_search call may return: any list of hrefs, up to MaxResults,
\* the lists with one more href in which the second one comes twice, and a
\* list with an href urlparse() rejects after one it accepts
SearchResults ==
    UNION {[1..n -> URLS] : n \in 0..MaxResults}
        \cup {[i \in 1..(MaxResults + 1) |-> IF i = 1 THEN x ELSE y] :
                 x \in URLS, y \in URLS}
        \cup {<<U_ABCAM_NOX4, U_BRACKET>>}

\* what one ddg_search call may raise instead: ddg_search (lines 80-85) has no
\* try, so that an exception of DDGS().text() leaves it, and main() with it
SearchErrors == {"RuntimeError", "TimeoutError"}

\* the --analytes values tried
AnalyteArgs == {<<NOX4>>, <<NOX4, BLANK>>, <<NOX4, CXCL10>>}

\* the --domains values tried: not given (or given empty), two vendors, and
\* one vendor with a distributor whose page redirects to that vendor
DomainArgs == {None, <<ARG_ABCAM, ARG_NOTABCAM>>, <<ARG_ABCAM, ARG_AWWW>>}

\* the command line (species and sample terms are the defaults)
ParsedArgs(an, dm, dd, mf, w, es, rsp, rsa, rel) ==
    [analytes         |-> an,
     species          |-> MOUSE,
     sample           |-> << <<"s","e","r","u","m">>, <<"p","l","a","s","m","a">> >>,
     domains          |-> dm,
     discover_domains |-> dd,
     max_fetch        |-> mf,
     workers          |-> w,
     early_stop       |-> es,
     require_species  |-> rsp,
     require_samples  |-> rsa,
     require_elisa    |-> rel]

\* The command lines tried.  The options are varied in three families, since
\* the options of the fetch phase are not read before it and those of the
\* collection not after: every --analytes, --workers and --early-stop (no
\* gate, two domains given, the largest --max-fetch, under which shorter lists
\* of candidates are collected as well); every combination of gates (one
\* worker, no early stop, two domains given, the largest --max-fetch); and the
\* three modes of domain resolution (one worker, no early stop, no gate):
\* a given list with every --max-fetch, the default list and the discovery
\* (with a list given, which it ignores) with the two smallest, the sets of
\* domains they loop over being the larger ones.  A fourth command line gives
\* the vendor and its distributor, under which two pages of one vendor name
\* the same analyte (both analytes, the most workers, no early stop, no gate,
\* the largest --max-fetch).
Tried(an, dm, dd, mf, w, es, rsp, rsa, rel) ==
    LET given == dm = <<ARG_ABCAM, ARG_NOTABCAM>>
        twice == dm = <<ARG_ABCAM, ARG_AWWW>>
        plain == an = <<NOX4, CXCL10>> /\ w = 1 /\ ~es
        open  == ~rsp /\ ~rsa /\ ~rel
    IN \/ given /\ ~dd /\ open /\ mf = MaxFetch
       \/ given /\ ~dd /\ plain /\ mf = MaxFetch
       \/ plain /\ open /\ ~twice /\ (dd => given /\ mf < MaxFetch - 1) /\ (~given => mf < MaxFetch - 1)
       \/ twice /\ ~dd /\ open /\ an = <<NOX4, CXCL10>> /\ w = MaxWorkers /\ ~es /\ mf = MaxFetch

(***************************************************************************)
(* State of main()                                                         *)
(***************************************************************************)
VARIABLES
    args,           \* the parsed command line
    pc,             \* where main() is
    expired,        \* time.time() - start > args.budget_sec
    analytes,       \* line 182
    allow_domains,  \* lines 188-208
    discovered,     \* line 201
    ai,             \* position of the running "for a in analytes" loop (1 outside)
    di,             \* position of "for d in list(allow_domains)" (1 outside)
    candidates,     \* line 211
    seen,           \* line 212
    queried,        \* history: some ddg_search call was issued
    found,          \* history: the hrefs the discovery searches returned
    observed,       \* history: a call of timed_out() has returned True
    queried_late,   \* history: a ddg_search call was issued after a call of
                    \* timed_out() had returned True, kept while the
                    \* collection runs
    returned,       \* history: the hrefs the searches of the collection
                    \* returned, kept while it runs (if Watched)
    offered,        \* history: how often (up to 2) add() was offered each URL,
                    \* kept while the collection runs (if Watched)
    futs,           \* line 273: the futures, each with its task's state, its
                    \* result, and (history) how its task went: "late" for
                    \* the budget, "ok" or "failed" for the GET, "raised"
    finished,       \* futures completed and not yet yielded by as_completed
    yielded,        \* number of futures as_completed has yielded
    pagehits,       \* line 244
    matched_any,    \* line 270
    matched,        \* line 290
    left_by,        \* history: how the as_completed loop was left
    probe           \* a function of the module applied on its own: its name,
                    \* its arguments and its result (NoProbe in a run of main())

vars == <<args, pc, expired, analytes, allow_domains, discovered, ai, di,
          candidates, seen, queried, returned, offered, futs, finished, yielded, pagehits,
          matched_any, matched, left_by, probe, queried_late, observed, found>>

\* no function is applied on its own
NoProbe == [op |-> "none"]

\* def timed_out() (lines 179-180)
timed_out == expired

\* analytes = [a.strip() for a in args.analytes if a.strip()] (line 182)
stripped(raw) ==
    SelectSeq([i \in 1..Len(raw) |-> strip(raw[i])], LAMBDA a : a # <<>>)

\* lines 188-197: the allow-set the mode starts with
initial_domains(a) ==
    IF a.discover_domains THEN NoDomains
    ELSE IF a.domains # None
         THEN {replace(lower(a.domains[i]), WWW, <<>>) : i \in 1..Len(a.domains)}
         ELSE Elems(DEFAULT_DOMAINS)

\* line 208 leaving the default list in place
resolved_default(disc) == Elems(DEFAULT_DOMAINS)

\* allow_domains = discovered if discovered else None (line 208)
resolved(disc) == IF disc # {} THEN disc ELSE NoDomains

\* if allow_domains: (line 231)
truthy(allow) == allow # NoDomains /\ allow # {}

\* add() without "if k in seen: continue"
RECURSIVE add_nodedup(_, _, _)
add_nodedup(urls, cands, sn) ==
    IF urls = <<>> THEN [candidates |-> cands, seen |-> sn]
    ELSE LET u == Head(urls)
             k == sid(u)
         IN IF Len(cands) + 1 >= args.max_fetch
            THEN [candidates |-> Append(cands, u), seen |-> sn \cup {k}]
            ELSE add_nodedup(Tail(urls), Append(cands, u), sn \cup {k})

\* add() without "if len(candidates) >= args.max_fetch: break"
RECURSIVE add_nocap(_, _, _)
add_nocap(urls, cands, sn) ==
    IF urls = <<>> THEN [candidates |-> cands, seen |-> sn]
    ELSE LET u == Head(urls)
             k == sid(u)
         IN IF k \in sn THEN add_nocap(Tail(urls), cands, sn)
            ELSE add_nocap(Tail(urls), Append(cands, u), sn \cup {k})

\* def add(urls) (lines 214-222), on the candidates and seen it closes over
RECURSIVE add(_, _, _)
add(urls, cands, sn) ==
    IF urls = <<>> THEN [candidates |-> cands, seen |-> sn]
    ELSE LET u == Head(urls)
             k == sid(u)
         IN IF k \in sn THEN add(Tail(urls), cands, sn)
            ELSE IF Len(cands) + 1 >= args.max_fetch
                 THEN [candidates |-> Append(cands, u), seen |-> sn \cup {k}]
                 ELSE add(Tail(urls), Append(cands, u), sn \cup {k})

\* The two histories of the collection are kept in the runs of the third
\* family of command lines, which has every mode and every --max-fetch.
Watched ==
    /\ args.workers = 1
    /\ ~args.early_stop
    /\ ~args.require_species /\ ~args.require_samples /\ ~args.require_elisa

\* history: urls is offered to add()
offer(off, urls) ==
    [u \in URLS |->
        LET n == off[u] + Cardinality({i \in 1..Len(urls) : urls[i] = u})
        IN IF n > 2 THEN 2 ELSE n]

\* the result of a future whose task raised
Raised == [raised |-> TRUE]

\* def worker(u) (lines 246-267): late is what timed_out() returns on entry,
\* resp what the GET delivers.  The ValueError of vendor(final_url) leaves
\* the task, whose future then raises it.
worker(u, late, resp) ==
    IF late THEN None
    ELSE LET got == fetch_page(u, resp)
         IN IF got = None THEN None
            ELSE LET final_url == got[2]
                     title     == take_until(got[3], {"\n"})
                     text      == SubSeq(got[3], Len(title) + 2, Len(got[3]))
                     blob      == title \o <<" ">> \o text \o <<" ">> \o final_url
                     a         == detect_analyte(blob, analytes, aliases)
                     v         == vendor(final_url)
                 IN IF a = None THEN None
                    ELSE IF v = ValueError THEN Raised
                    ELSE LET ph == PageHit(final_url, v, a, title,
                                           species_ok(text, args.species),
                                           samples_ok(text, args.sample),
                                           contains(lower(text), ELISA))
                         IN IF keep(ph, args.require_species, args.require_samples,
                                    args.require_elisa)
                            THEN ph ELSE None

Init ==
    /\ \E an \in AnalyteArgs, dm \in DomainArgs, dd \in BOOLEAN,
          mf \in 0..MaxFetch, w \in 0..MaxWorkers, es \in BOOLEAN,
          rsp \in BOOLEAN, rsa \in BOOLEAN, rel \in BOOLEAN :
          /\ Tried(an, dm, dd, mf, w, es, rsp, rsa, rel)
          /\ args = ParsedArgs(an, dm, dd, mf, w, es, rsp, rsa, rel)
    /\ pc = "main"
    /\ expired = FALSE
    /\ analytes = <<>>
    /\ allow_domains = NoDomains
    /\ discovered = {}
    /\ ai = 1
    /\ di = 1
    /\ candidates = <<>>
    /\ seen = {}
    /\ queried = FALSE
    /\ queried_late = FALSE
    /\ observed = FALSE
    /\ found = {}
    /\ returned = {}
    /\ offered = [u \in URLS |-> 0]
    /\ futs = <<>>
    /\ finished = <<>>
    /\ yielded = 0
    /\ pagehits = <<>>
    /\ matched_any = <<>>
    /\ matched = <<>>
    /\ left_by = "none"
    /\ probe = NoProbe

(***************************************************************************)
(* main(), one action per step between two blocking calls                  *)
(***************************************************************************)
\* lines 182-197: the precondition and the mode
Start ==
    /\ pc = "main"
    /\ analytes' = stripped(args.analytes)
    /\ IF Len(analytes') < 2
       THEN /\ pc' = "SystemExit"
            /\ UNCHANGED allow_domains
       ELSE /\ allow_domains' = initial_domains(args)
            /\ pc' = IF args.discover_domains THEN "discover" ELSE "seed"
    /\ UNCHANGED <<probe, found, queried_late, observed, args, expired, discovered, ai, di, candidates, seen, queried,
                   returned, offered, futs, finished, yielded, pagehits, matched_any, matched, left_by>>

\* a search of the loops below ends main(): ddg_search raised err, or to_urls
\* raised the ValueError of an href.  Nothing of what the search returned
\* is kept; the clock reads whatever it reads when the search is over.
search_raises(err) ==
    /\ pc' = err
    /\ ai' = 1
    /\ di' = 1
    /\ expired' \in BOOLEAN
    /\ UNCHANGED <<allow_domains, discovered, found, candidates, seen,
                   returned, offered>>

\* lines 202-208: one iteration of the discovery loop, and what follows the
\* loop.  The clock moves while the search is under way: its results are
\* used all the same.
DiscoverRound ==
    /\ pc = "discover"
    /\ IF timed_out
       THEN /\ allow_domains' = resolved(discovered)
            /\ pc' = "seed"
            /\ ai' = 1
            /\ observed' = TRUE
            /\ UNCHANGED <<discovered, queried, queried_late, found, expired, di>>
       ELSE /\ queried' = TRUE
            /\ queried_late' = (queried_late \/ observed)
            /\ UNCHANGED observed
            /\ \/ \E err \in SearchErrors : search_raises(err)
               \/ \E res \in SearchResults :
                     IF to_urls_raises(res)
                     THEN search_raises("ValueError")
                     ELSE /\ discovered' = discovered \cup
                                 {vendor(u) : u \in Elems(to_urls(res, NoDomains))}
                          /\ found' = found \cup Elems(res)
                          /\ expired' \in BOOLEAN
                          /\ IF ai = Len(analytes)
                             THEN /\ allow_domains' = resolved(discovered')
                                  /\ pc' = "seed"
                                  /\ ai' = 1
                             ELSE /\ ai' = ai + 1
                                  /\ UNCHANGED <<allow_domains, pc>>
                          /\ UNCHANGED di
    /\ UNCHANGED <<probe, args, analytes, candidates, seen, returned, offered, futs,
                   finished, yielded, pagehits, matched_any, matched, left_by>>

\* where main() goes when the seed loop is over (line 231)
after_seed == IF truthy(allow_domains) THEN "site" ELSE "submit"

\* len(candidates) >= args.max_fetch (lines 226, 233 and 236)
capped == Len(candidates) >= args.max_fetch

\* lines 225-229: one iteration of the seed loop; the clock moves while the
\* search is under way
SeedRound ==
    /\ pc = "seed"
    /\ IF timed_out \/ capped
       THEN /\ pc' = after_seed
            /\ ai' = 1
            /\ observed' = (observed \/ timed_out)
            /\ UNCHANGED <<candidates, seen, queried, queried_late, returned, offered,
                           expired, di, allow_domains, discovered, found>>
       ELSE /\ queried' = TRUE
            /\ queried_late' = (queried_late \/ observed)
            /\ UNCHANGED observed
            /\ \/ \E err \in SearchErrors : search_raises(err)
               \/ \E res \in SearchResults :
                     IF to_urls_raises(res)
                     THEN search_raises("ValueError")
                     ELSE LET urls == to_urls(res, allow_domains)
                              r    == add(urls, candidates, seen)
                          IN /\ candidates' = r.candidates
                             /\ seen' = r.seen
                             /\ returned' = IF Watched THEN returned \cup Elems(res)
                                            ELSE returned
                             /\ offered' = IF Watched THEN offer(offered, urls)
                                           ELSE offered
                             /\ expired' \in BOOLEAN
                             /\ IF ai = Len(analytes)
                                THEN pc' = after_seed /\ ai' = 1
                                ELSE pc' = pc /\ ai' = ai + 1
                             /\ UNCHANGED <<di, allow_domains, discovered, found>>
    /\ UNCHANGED <<probe, args, analytes, futs,
                   finished, yielded, pagehits, matched_any, matched, left_by>>

\* The site-scoped loops (lines 232-239) are at the head of the outer loop
\* for the domain di when ai = 1, and at the head of the inner loop for the
\* analyte ai of the domain di when ai > 1.  Each head calls timed_out(): the
\* head main() is at reads the clock of the state, a head reached later in
\* the same step reads the clock again, which has moved on or was set back.
\*
\* the domains for which the step can reach the search of line 238: the
\* domain di when the head main() is at lets it pass, and the domains that
\* follow when an inner head reads the deadline as passed (line 237) and the
\* heads after it do not
searchable ==
    IF capped THEN {}
    ELSE IF ai > 1
         THEN IF timed_out THEN (di + 1)..Cardinality(allow_domains) ELSE {di}
         ELSE IF timed_out THEN {} ELSE di..Cardinality(allow_domains)

\* lines 232-239: main() leaves the site-scoped loops without another search:
\* the break of line 234, or the break of line 237 for the last domain
SiteLeave ==
    /\ capped \/ ai = 1 \/ timed_out
    /\ pc' = "submit"
    /\ ai' = 1
    /\ di' = 1
    /\ IF capped
       THEN IF ai > 1 /\ di < Cardinality(allow_domains)
            THEN /\ expired' \in BOOLEAN
                 /\ observed' = (observed \/ timed_out \/ expired')
            ELSE /\ expired' = expired
                 /\ observed' = (observed \/ timed_out)
       ELSE /\ expired' = TRUE
            /\ observed' = TRUE
    /\ UNCHANGED <<candidates, seen, queried, queried_late, returned, offered,
                   allow_domains, discovered, found>>

\* lines 233-237: main() passes the heads up to the search for the domain d,
\* having read the deadline as passed if it was at another domain
SitePass(d) ==
    /\ observed' = (observed \/ timed_out \/ d > di)
    /\ queried_late' = (queried_late \/ observed')

\* lines 232-239, after the search for the analyte a of the domain d: the
\* next analyte, the next domain, or the end of the loops
SiteNext(d, a) ==
    IF a < Len(analytes)
    THEN ai' = a + 1 /\ di' = d /\ pc' = pc
    ELSE IF d < Cardinality(allow_domains)
         THEN ai' = 1 /\ di' = d + 1 /\ pc' = pc
         ELSE ai' = 1 /\ di' = 1 /\ pc' = "submit"

\* lines 238-239: the search for a domain main() can reach returns or raises
SiteSearch ==
    /\ queried' = TRUE
    /\ \/ \E err \in SearchErrors :
             /\ search_raises(err)
             /\ \E d \in searchable : SitePass(d)
       \/ \E res \in SearchResults :
             IF to_urls_raises(res)
             THEN /\ search_raises("ValueError")
                  /\ \E d \in searchable : SitePass(d)
             ELSE LET urls == to_urls(res, allow_domains)
                      r    == add(urls, candidates, seen)
                  IN /\ candidates' = r.candidates
                     /\ seen' = r.seen
                     /\ returned' = IF Watched THEN returned \cup Elems(res)
                                    ELSE returned
                     /\ offered' = IF Watched THEN offer(offered, urls)
                                   ELSE offered
                     /\ expired' \in BOOLEAN
                     /\ UNCHANGED <<allow_domains, discovered, found>>
                     /\ \E d \in searchable :
                           /\ SitePass(d)
                           /\ SiteNext(d, IF d = di THEN ai ELSE 1)

\* lines 232-239: one step of the site-scoped loops, up to the end of the
\* next search or out of the loops
SiteRound ==
    /\ pc = "site"
    /\ \/ SiteLeave
       \/ SiteSearch
    /\ UNCHANGED <<probe, args, analytes, futs,
                   finished, yielded, pagehits, matched_any, matched, left_by>>

\* line 273 submitting worker(u) twice for every candidate
submitted_twice(cands) ==
    [i \in 1..(2 * Len(cands)) |->
        [url |-> (cands \o cands)[i], state |-> "pending", result |-> None,
         outcome |-> "none"]]

\* futs = [ex.submit(worker, u) for u in candidates] (line 273): one
\* future per candidate, in the order of the list
submitted(cands) ==
    [i \in 1..Len(cands) |->
        [url |-> cands[i], state |-> "pending", result |-> None, outcome |-> "none"]]

\* lines 272-273: ThreadPoolExecutor(max_workers=args.workers), which raises
\* ValueError unless max_workers > 0, and the submits of line 273, one per
\* candidate.  A submitted task may run while main() goes on submitting: a
\* step is the submits main() makes before a pool thread moves.
Submit ==
    /\ pc = "submit"
    /\ IF args.workers <= 0
       THEN pc' = "ValueError" /\ UNCHANGED futs
       ELSE LET all == submitted(candidates)
            IN \E k \in 0..(Len(all) - Len(futs)) :
                  /\ k = 0 => Len(all) = Len(futs)
                  /\ futs' = futs \o SubSeq(all, Len(futs) + 1, Len(futs) + k)
                  /\ pc' = IF Len(futs') = Len(all) THEN "as_completed" ELSE pc
    /\ returned' = {}
    /\ found' = {}
    /\ offered' = [u \in URLS |-> 0]
    /\ queried_late' = FALSE
    /\ UNCHANGED <<probe, observed, args, expired, analytes, allow_domains, discovered, ai, di,
                   candidates, seen, queried, finished, yielded, pagehits,
                   matched_any, matched, left_by>>

Running == {i \in 1..Len(futs) : futs[i].state = "running"}

Pending == {i \in 1..Len(futs) : futs[i].state = "pending"}

\* the pending tasks a pool thread can be in: the threads take the work items
\* in the order of their submission, one each, so the tasks taken and not
\* finished are at most args.workers, the running ones among them
taken == {i \in Pending :
             Cardinality({j \in Pending : j < i}) + Cardinality(Running) < args.workers}

\* a pool thread that has taken a work item enters worker(u): with the budget
\* spent it returns None at once (lines 247-248), else it issues the GET.
\* Which of the threads holding a task gets there first is the scheduler's
\* choice.
WorkerStart ==
    /\ \E i \in taken :
          IF timed_out
          THEN /\ futs' = [futs EXCEPT ![i].state = "finished",
                                       ![i].result = worker(futs[i].url, TRUE, Failed),
                                       ![i].outcome = "late"]
               /\ finished' = Append(finished, i)
               /\ observed' = TRUE
          ELSE /\ futs' = [futs EXCEPT ![i].state = "running"]
               /\ UNCHANGED <<finished, observed>>
    /\ UNCHANGED <<probe, found, queried_late, args, pc, expired, analytes, allow_domains, discovered, ai, di,
                   candidates, seen, queried, returned, offered, yielded, pagehits, matched_any,
                   matched, left_by>>

\* the GET of a running task returns or fails and worker(u) runs to its end
\* (lines 249-267), or the task dies of an unexpected exception
WorkerFinish ==
    \E i \in Running, outcome \in {"ok", "failed", "raised"} :
        LET r == IF outcome = "raised" THEN Raised
                 ELSE worker(futs[i].url, FALSE,
                             IF outcome = "ok" THEN Web[futs[i].url] ELSE Failed)
        IN
        /\ futs' = [futs EXCEPT
                      ![i].state = "finished",
                      ![i].outcome = IF r = Raised THEN "raised" ELSE outcome,
                      ![i].result = r]
        /\ finished' = Append(finished, i)
        /\ UNCHANGED <<probe, found, queried_late, observed, args, pc, expired, analytes, allow_domains, discovered, ai,
                       di, candidates, seen, queried, returned, offered, yielded, pagehits,
                       matched_any, matched, left_by>>

\* the orders in which as_completed(futs) yields the futures that are done
\* when its generator starts: it collects them in a set and yields the set
\* first, so their order is that of the set's iteration and not that of their
\* completion
already_done(done) ==
    {[i \in 1..Len(done) |-> done[p[i]]] : p \in Permutations(1..Len(done))}

\* line 274: the for statement starts the generator of as_completed(futs);
\* the futures that complete from now on are yielded in completion order
AsCompleted ==
    /\ pc = "as_completed"
    /\ finished' \in already_done(finished)
    /\ pc' = "consume"
    /\ UNCHANGED <<probe, found, queried_late, observed, args, expired, analytes, allow_domains, discovered, ai, di,
                   candidates, seen, queried, returned, offered, futs, yielded, pagehits,
                   matched_any, matched, left_by>>

\* the loop stopping only for two complete vendors
early_break_two(m) == Cardinality(DOMAIN m) >= 2

\* the loop without the break of line 288
early_break_never(m) == FALSE

\* if matched_any: break (lines 287-288)
early_break(m) == DOMAIN m # {}

\* pagehits.append(ph) (line 283)
accept(hits, ph) == Append(hits, ph)

\* line 299 with d[a][-1] for d[a][0]
printed_last(d, a) == d[a][Len(d[a])].final_url

\* print(f"  {a}: {d[a][0].final_url}") (line 299), d the row of a vendor
printed(d, a) == d[a][1].final_url

\* lines 283-288, the loop body for an accepted hit ph: the hits and
\* matched_any afterwards, and whether the loop breaks
loop_body(hits, many, ph, early_stop, an) ==
    LET h2 == accept(hits, ph)
        m2 == IF early_stop THEN match_by_vendor(h2, an) ELSE many
    IN [pagehits |-> h2, matched_any |-> m2, stop |-> early_stop /\ early_break(m2)]

\* matched = matched_any if matched_any else match_by_vendor(pagehits,
\* analytes) (line 290)
final(many, hits, an) ==
    IF DOMAIN many # {} THEN many ELSE match_by_vendor(hits, an)

\* try: ph = f.result() / except Exception: ph = None (lines 277-280)
result(f) == IF f.result = Raised THEN None ELSE f.result

\* lines 274-288: as_completed yields the next completed future and the loop
\* body runs
Consume ==
    /\ pc = "consume"
    /\ finished # <<>>
    /\ finished' = Tail(finished)
    /\ yielded' = yielded + 1
    /\ IF timed_out
       THEN /\ pc' = "shutdown"
            /\ left_by' = "budget"
            /\ observed' = TRUE
            /\ UNCHANGED <<pagehits, matched_any>>
       ELSE /\ UNCHANGED observed
            /\ LET ph == result(futs[Head(finished)])
               IN IF ph = None
                  THEN UNCHANGED <<pc, left_by, pagehits, matched_any>>
                  ELSE LET b == loop_body(pagehits, matched_any, ph, args.early_stop,
                                          analytes)
                       IN /\ pagehits' = b.pagehits
                          /\ matched_any' = b.matched_any
                          /\ IF b.stop
                             THEN pc' = "shutdown" /\ left_by' = "early_stop"
                             ELSE UNCHANGED <<pc, left_by>>
    /\ UNCHANGED <<probe, found, queried_late, args, expired, analytes, allow_domains, discovered, ai, di,
                   candidates, seen, queried, returned, offered, futs, matched>>

\* as_completed has yielded every future: the for loop ends
LoopEnd ==
    /\ pc = "consume"
    /\ yielded = Len(futs)
    /\ pc' = "shutdown"
    /\ left_by' = "exhausted"
    /\ UNCHANGED <<probe, found, queried_late, observed, args, expired, analytes, allow_domains, discovered, ai, di,
                   candidates, seen, queried, returned, offered, futs, finished, yielded, pagehits,
                   matched_any, matched>>

\* the end of the with block: ThreadPoolExecutor.__exit__ is
\* shutdown(wait=True), which returns when every submitted task has run
pool_idle == \A i \in 1..Len(futs) : futs[i].state = "finished"

\* lines 290-299, once the with block is left
Report ==
    /\ pc = "shutdown"
    /\ pool_idle
    /\ matched' = final(matched_any, pagehits, analytes)
    /\ pc' = IF DOMAIN matched' = {} THEN "no_matches" ELSE "reported"
    /\ UNCHANGED <<probe, found, queried_late, observed, args, expired, analytes, allow_domains, discovered, ai, di,
                   candidates, seen, queried, returned, offered, futs, finished, yielded, pagehits,
                   matched_any, left_by>>

\* main() has returned or an exception has left it
Ended == pc \in {"SystemExit", "ValueError", "no_matches", "reported"} \cup SearchErrors

\* time.time() - start passes args.budget_sec, or falls back to it or below:
\* time.time() is the wall clock, which can be set back
Tick ==
    /\ ~Ended
    /\ expired' = ~expired
    /\ UNCHANGED <<probe, found, queried_late, observed, args, pc, analytes, allow_domains, discovered, ai, di,
                   candidates, seen, queried, returned, offered, futs, finished, yielded, pagehits,
                   matched_any, matched, left_by>>

Next ==
    \/ Start
    \/ DiscoverRound
    \/ SeedRound
    \/ SiteRound
    \/ Submit
    \/ WorkerStart
    \/ WorkerFinish
    \/ AsCompleted
    \/ Consume
    \/ LoopEnd
    \/ Report
    \/ Tick

Spec == Init /\ [][Next]_vars

\* main() and the pool threads keep running: every search and every GET
\* returns, the pool runs a submitted task when a thread is free, and the
\* main thread takes its next step.  Nothing is assumed of the clock: the
\* deadline may pass at any time or never, and the clock may be set back.
Fairness ==
    /\ WF_vars(Start)
    /\ WF_vars(DiscoverRound)
    /\ WF_vars(SeedRound)
    /\ WF_vars(SiteRound)
    /\ WF_vars(Submit)
    /\ WF_vars(WorkerStart)
    /\ WF_vars(WorkerFinish)
    /\ WF_vars(AsCompleted)
    /\ WF_vars(Consume)
    /\ WF_vars(LoopEnd)
    /\ WF_vars(Report)

\* the runs without a gate: the gates decide which pages are hits and no
\* loop, wait or exit depends on them
FairInit ==
    /\ Init
    /\ ~args.require_species /\ ~args.require_samples /\ ~args.require_elisa

FairSpec == FairInit /\ [][Next]_vars /\ Fairness

(***************************************************************************)
(* The functions of the module applied on their own: the arguments are     *)
(* drawn in the initial state, one action per function applies it          *)
(***************************************************************************)
IL6 == <<"I","L","6">>

\* the words a page blob is made of: names and aliases in either case, a
\* name continued by a digit, a name that is in no table
Words == {NOX4, <<"c","x","c","l","1","0">>, <<"I","P","-","1","0">>,
          <<"N","O","X","4","1">>, IL6, <<"c","r","g","2">>}

\* what stands between two words of a blob; "_" is a word character
Joints == {<<" ">>, <<"-">>, <<"_">>, <<>>}

Blobs == Words \cup {w1 \o j \o w2 : w1 \in Words, j \in Joints, w2 \in Words}

\* requested analyte lists (args.analytes, stripped)
AnalyteLists == {<<NOX4, CXCL10>>, <<CXCL10, NOX4>>, <<NOX4>>, <<IL6, NOX4>>,
                 << <<"c","x","c","l","1","0">>, NOX4 >>}

\* a function about to be applied to arguments x
Call(op, x) == [op |-> op, x |-> x, done |-> FALSE, out |-> None]

DetectCalls == {Call("detect_analyte", [blob |-> b, analytes |-> an]) :
                   b \in Blobs, an \in AnalyteLists}

\* accepted hits of two vendors: two pages of the first for NOX4, one for
\* CXCL10, one page of the second for each
V_A == <<"a",".","c","o","m">>

V_B == <<"b",".","c","o","m">>

Hit(v, a, page) ==
    PageHit(HTTPS \o v \o <<"/", page>>, v, a, <<>>, TRUE, TRUE, TRUE)

Hits == {Hit(V_A, NOX4, "1"), Hit(V_A, NOX4, "2"), Hit(V_A, CXCL10, "3"),
         Hit(V_B, NOX4, "4"), Hit(V_B, CXCL10, "5")}

\* the longest list of hits match_by_vendor is applied to
MaxHits == 3

HitLists == UNION {[1..n -> Hits] : n \in 0..MaxHits}

\* the orderings of a list
Orderings(seq) == {[i \in 1..Len(seq) |-> seq[p[i]]] : p \in Permutations(1..Len(seq))}

AggregateCalls ==
    UNION {{Call("match_by_vendor", [pagehits |-> h, reordered |-> r]) : r \in Orderings(h)} :
              h \in HitLists}

\* hosts with "www." in front, in upper case, after another label, inside a
\* label, twice, and not at all
Hosts == {<<"w","w","w",".","a","b","c","a","m",".","c","o","m">>,
          <<"W","W","W",".","A","b","c","a","m",".","c","o","m">>,
          <<"s","h","o","p",".","w","w","w",".","a","b","c","a","m",".","c","o","m">>,
          <<"a","w","w","w",".","v","w","r",".","c","o","m">>,
          <<"w","w","w",".","w","w","w",".","a","b","c","a","m",".","c","o","m">>,
          <<"a","b","c","a","m",".","c","o","m">>,
          <<"s","h","o","p",".","a","b","c","a","m",".","c","o","m">>}

Paths == {<<>>, <<"/">>, <<"/","w","w","w",".","k","i","t">>}

VendorCalls == {Call("vendor", [host |-> h, url |-> sch \o h \o pth]) :
                   h \in Hosts, sch \in {HTTP, HTTPS}, pth \in Paths}

\* the most hits the loop of line 274 is fed
MaxArrivals == 4

\* the loop of line 274 about to start, with or without --early-stop
LoopCalls == {Call("loop", [early_stop |-> es, pagehits |-> <<>>, matched_any |-> <<>>]) :
                 es \in BOOLEAN}

PureCalls == DetectCalls \cup AggregateCalls \cup VendorCalls \cup LoopCalls

PureInit ==
    /\ probe \in PureCalls
    /\ args = ParsedArgs(<<NOX4, CXCL10>>, None, FALSE, 0, 1, FALSE, FALSE, FALSE, FALSE)
    /\ pc = "function"
    /\ expired = FALSE
    /\ analytes = <<>>
    /\ allow_domains = NoDomains
    /\ discovered = {}
    /\ ai = 1
    /\ di = 1
    /\ candidates = <<>>
    /\ seen = {}
    /\ queried = FALSE
    /\ queried_late = FALSE
    /\ observed = FALSE
    /\ found = {}
    /\ returned = {}
    /\ offered = [u \in URLS |-> 0]
    /\ futs = <<>>
    /\ finished = <<>>
    /\ yielded = 0
    /\ pagehits = <<>>
    /\ matched_any = <<>>
    /\ matched = <<>>
    /\ left_by = "none"

main_vars == <<args, pc, expired, analytes, allow_domains, discovered, ai, di,
               candidates, seen, queried, returned, offered, futs, finished,
               yielded, pagehits, matched_any, matched, left_by, queried_late, observed,
               found>>

\* detect_analyte(blob, analytes, aliases) with the table of line 186
Detect ==
    /\ probe.op = "detect_analyte"
    /\ ~probe.done
    /\ probe' = [probe EXCEPT !.done = TRUE,
                              !.out = detect_analyte(probe.x.blob, probe.x.analytes, aliases)]
    /\ UNCHANGED main_vars

\* match_by_vendor(pagehits, analytes), for a list of hits and for the same
\* hits in another order
Aggregate ==
    /\ probe.op = "match_by_vendor"
    /\ ~probe.done
    /\ probe' = [probe EXCEPT
                    !.done = TRUE,
                    !.out = [first  |-> match_by_vendor(probe.x.pagehits, <<NOX4, CXCL10>>),
                             second |-> match_by_vendor(probe.x.reordered, <<NOX4, CXCL10>>)]]
    /\ UNCHANGED main_vars

\* vendor(url)
Normalise ==
    /\ probe.op = "vendor"
    /\ ~probe.done
    /\ probe' = [probe EXCEPT !.done = TRUE, !.out = vendor(probe.x.url)]
    /\ UNCHANGED main_vars

\* lines 274-288 for an accepted hit: as_completed yields a future whose
\* result is a hit, any of Hits, and the loop body runs; if it breaks, the
\* with block is being left (probe.out says how) and line 290 is still to
\* come
Arrive ==
    /\ probe.op = "loop"
    /\ ~probe.done
    /\ probe.out = None
    /\ Len(probe.x.pagehits) < MaxArrivals
    /\ \E ph \in Hits :
          LET b == loop_body(probe.x.pagehits, probe.x.matched_any, ph,
                             probe.x.early_stop, <<NOX4, CXCL10>>)
          IN probe' = [probe EXCEPT
                          !.x.pagehits = b.pagehits,
                          !.x.matched_any = b.matched_any,
                          !.out = IF b.stop THEN [left_by |-> "early_stop"] ELSE None]
    /\ UNCHANGED main_vars

\* line 290, once the with block is left after the break of line 288: the
\* pool has run the tasks that were queued, none of which changes pagehits
\* or matched_any
Leave ==
    /\ probe.op = "loop"
    /\ ~probe.done
    /\ probe.out # None
    /\ probe' = [probe EXCEPT
                    !.done = TRUE,
                    !.out = [left_by |-> probe.out.left_by,
                             matched |-> final(probe.x.matched_any, probe.x.pagehits,
                                               <<NOX4, CXCL10>>)]]
    /\ UNCHANGED main_vars

\* as_completed has no more futures, every task has run: the loop ends and
\* line 290 follows
Exhaust ==
    /\ probe.op = "loop"
    /\ ~probe.done
    /\ probe.out = None
    /\ probe' = [probe EXCEPT
                    !.done = TRUE,
                    !.out = [left_by |-> "exhausted",
                             matched |-> final(probe.x.matched_any, probe.x.pagehits,
                                               <<NOX4, CXCL10>>)]]
    /\ UNCHANGED main_vars

PureNext ==
    \/ Detect
    \/ Aggregate
    \/ Normalise
    \/ Arrive
    \/ Leave
    \/ Exhaust

PureSpec == PureInit /\ [][PureNext]_vars

(***************************************************************************)
(* The reported matrix                                                     *)
(***************************************************************************)
\* the accumulated hits of vendor v for analyte a, in the order of accumulation
HitsOf(v, a) == SelectSeq(pagehits, LAMBDA ph : ph.vendor = v /\ ph.analyte = a)

\* the vendors of the accumulated hits
HitVendors == {pagehits[k].vendor : k \in 1..Len(pagehits)}

\* the vendors with at least one accumulated hit for every requested analyte
CompleteVendors == {v \in HitVendors : \A a \in Elems(analytes) : HitsOf(v, a) # <<>>}

\* C1: when main() has computed its final matrix (it has reported or logged
\* "No matches."), the vendors of the matrix are exactly the vendors with an
\* accumulated hit for every requested analyte, each with its hits per
\* analyte; the report is printed iff there is such a vendor.  This holds
\* for every completion order, with or without --early-stop, whether or not
\* the budget expired.
C1_ReportedIffComplete ==
    /\ pc \in {"reported", "no_matches"} =>
          /\ DOMAIN matched = CompleteVendors
          /\ \A v \in DOMAIN matched : \A a \in Elems(analytes) :
                 matched[v][a] = HitsOf(v, a)
    /\ pc = "reported" => CompleteVendors # {}
    /\ pc = "no_matches" => CompleteVendors = {}

\* a report is printed while another vendor, with hits for some analyte only,
\* is left out
C1_Witness ==
    /\ pc = "reported"
    /\ HitVendors \ DOMAIN matched # {}

(***************************************************************************)
(* The collection                                                          *)
(***************************************************************************)
\* how often u is among the candidates
Times(u) == Cardinality({i \in 1..Len(candidates) : candidates[i] = u})

\* no two candidates have the same fingerprint
DistinctFingerprints ==
    \A i, j \in 1..Len(candidates) : sid(candidates[i]) = sid(candidates[j]) => i = j

\* C2 as stated: no two candidates have the same fingerprint, and a URL that
\* add() was offered more than once is among the candidates exactly once.
C2_OfferedTwiceAcceptedOnce ==
    /\ DistinctFingerprints
    /\ \A u \in URLS : offered[u] = 2 => Times(u) = 1

\* C2, amended: no two candidates have the same fingerprint, and a URL that
\* add() was offered, once or more than once, is among the candidates at most
\* once: exactly once while the candidates are fewer than --max-fetch.
C2_OfferedAcceptedAtMostOnce ==
    /\ DistinctFingerprints
    /\ \A u \in URLS :
          /\ Times(u) <= 1
          /\ offered[u] >= 1 /\ Len(candidates) < args.max_fetch => Times(u) = 1

\* a URL was offered more than once, and it is a candidate once, among others
C2_Witness ==
    \E u \in URLS :
        /\ offered[u] = 2
        /\ Times(u) = 1
        /\ Len(candidates) >= 2

\* C3: the candidates never exceed --max-fetch, whatever the searches of the
\* seed rounds and of the site-scoped rounds return; add() stops inside a
\* batch at the cap, the rest of the batch being neither accepted nor
\* recorded as seen.
C3_CapRespected ==
    /\ Len(candidates) <= args.max_fetch
    /\ Cardinality(seen) = Len(candidates)

\* the cap was reached inside a batch: a URL offered to add() was left out
C3_Witness ==
    /\ args.max_fetch >= 2
    /\ Len(candidates) = args.max_fetch
    /\ \E u \in URLS : offered[u] >= 1 /\ Times(u) = 0

(***************************************************************************)
(* The domain filter                                                       *)
(***************************************************************************)
\* u is an http or https URL
IsWeb(u) ==
    \/ Len(u) >= 7 /\ SubSeq(u, 1, 7) = <<"h","t","t","p",":","/","/">>
    \/ Len(u) >= 8 /\ SubSeq(u, 1, 8) = <<"h","t","t","p","s",":","/","/">>

\* dom is d, or a name of at least one more label under d
SameOrSubdomain(dom, d) ==
    \/ dom = d
    \/ /\ Len(dom) > Len(d)
       /\ dom[Len(dom) - Len(d)] = "."
       /\ \A i \in 1..Len(d) : dom[Len(dom) - Len(d) + i] = d[i]

\* u may be a candidate of this run
Eligible(u) ==
    /\ IsWeb(u)
    /\ \/ allow_domains = NoDomains
       \/ \E d \in allow_domains : SameOrSubdomain(VENDOR[u], d)

\* C9: of the hrefs the searches of the collection returned, to_urls passes
\* on to add() exactly the http/https ones whose vendor is an entry of the
\* allow-set or ends with "." and an entry, all http/https ones when there is
\* no allow-set; so every candidate is such a URL, and such a URL is a
\* candidate unless the cap was reached.
C9_DomainFilter ==
    /\ \A u \in returned : offered[u] >= 1 <=> Eligible(u)
    /\ \A u \in Elems(candidates) : Eligible(u)
    /\ \A u \in returned :
          Eligible(u) /\ Len(candidates) < args.max_fetch => u \in Elems(candidates)

\* under the default list, which has abcam.com and not notabcam.com, the
\* searches returned a page of notabcam.com, which was never offered to add()
\* and is no candidate, and one of shop.abcam.com, which is
C9_Witness ==
    /\ allow_domains = Elems(DEFAULT_DOMAINS)
    /\ U_NOTABCAM \in returned
    /\ U_NOTABCAM \notin Elems(candidates)
    /\ U_SHOP_K2 \in Elems(candidates)
    /\ offered[U_NOTABCAM] = 0

(***************************************************************************)
(* The consumption of the results                                          *)
(***************************************************************************)
\* main() is between the dispatch of the tasks and its last statement
Fetching == pc \in {"as_completed", "consume", "shutdown"}

\* C4: under --early-stop the complete vendors are computed anew with every
\* accepted hit (matched_any is the matrix of the hits accumulated so far),
\* and from the hit that completes a vendor on the loop consumes no further
\* future: no hit is appended, whatever tasks complete afterwards.
C4_EarlyStopConsumesNoMore ==
    /\ [](args.early_stop /\ pagehits # <<>> =>
            /\ DOMAIN matched_any = CompleteVendors
            /\ \A v \in DOMAIN matched_any : \A a \in Elems(analytes) :
                   matched_any[v][a] = HitsOf(v, a))
    /\ [](args.early_stop /\ CompleteVendors # {} => pc # "consume")
    /\ [][args.early_stop /\ CompleteVendors # {} =>
            pagehits' = pagehits /\ yielded' = yielded]_vars

\* the loop was left for a complete vendor, and a task that completed with a
\* hit was never consumed
C4_Witness ==
    /\ left_by = "early_stop"
    /\ pc = "reported"
    /\ \E i \in 1..Len(futs) :
          /\ futs[i].outcome = "ok"
          /\ futs[i].result # None
          /\ futs[i].result \notin Elems(pagehits)

\* C5: when the loop was left for a complete vendor, the report does not
\* wait for the dispatched tasks: main() can print it at once, whatever
\* tasks are still running or not yet started.
C5_ReportDoesNotAwaitTasks ==
    pc = "shutdown" /\ left_by = "early_stop" => ENABLED Report

\* C6: when the loop was left for the budget, the final computation and the
\* report do not wait for the remaining dispatched tasks.
C6_BudgetDoesNotAwaitTasks ==
    pc = "shutdown" /\ left_by = "budget" => ENABLED Report

\* C7: a task whose GET failed, or which raised, gives the loop no hit, and
\* the accumulated hits are results of tasks whose GET succeeded: all of
\* them, once as_completed has yielded every future; from the dispatch on,
\* main() goes nowhere but to the report or to "No matches.".
C7_FailuresAreAbsentHits ==
    /\ [](\A i \in 1..Len(futs) :
            futs[i].outcome \in {"failed", "raised"} =>
                /\ result(futs[i]) = None
                /\ \A k \in 1..Len(pagehits) :
                       pagehits[k].final_url # Web[futs[i].url].url)
    /\ [](\A k \in 1..Len(pagehits) : \E i \in 1..Len(futs) :
            futs[i].outcome = "ok" /\ futs[i].result = pagehits[k])
    /\ [](left_by = "exhausted" =>
            /\ \A i \in 1..Len(futs) :
                   futs[i].outcome = "ok" /\ futs[i].result # None =>
                       futs[i].result \in Elems(pagehits)
            /\ Len(pagehits) = Cardinality({i \in 1..Len(futs) :
                                   futs[i].outcome = "ok" /\ futs[i].result # None}))
    /\ [][Fetching => pc' \in {"as_completed", "consume", "shutdown", "reported",
                            "no_matches"}]_vars

\* every future was consumed, one of a failed GET and one of a task that
\* raised among them, and a hit was accumulated
C7_Witness ==
    /\ left_by = "exhausted"
    /\ pc \in {"reported", "no_matches"}
    /\ \E i \in 1..Len(futs) : futs[i].outcome = "failed"
    /\ \E i \in 1..Len(futs) : futs[i].outcome = "raised"
    /\ pagehits # <<>>

\* C8: with fewer than two analytes left after stripping, main() exits
\* before any search, candidate or task; with two or more it never ends by
\* an exception.
C8_AbnormalOnlyBelowTwoAnalytes ==
    /\ Len(stripped(args.analytes)) < 2 =>
          /\ pc \in {"main", "SystemExit"}
          /\ ~queried /\ candidates = <<>> /\ futs = <<>>
    /\ Len(stripped(args.analytes)) >= 2 =>
          pc \notin {"SystemExit", "ValueError"} \cup SearchErrors

\* ph has the flag of every gate that --require-... enables
PassesGates(ph) ==
    /\ args.require_species => ph.species_found
    /\ args.require_samples => ph.samples_found
    /\ args.require_elisa => ph.has_elisa

\* C10: every accumulated hit, and so every hit of the matrices computed
\* from them, has the flag of every enabled gate; the page of notabcam.com,
\* where NOX4 is detected and which has no flag, gives no hit when a gate is
\* enabled.
C10_GatesRespected ==
    /\ \A k \in 1..Len(pagehits) : PassesGates(pagehits[k])
    /\ \A v \in DOMAIN matched : \A a \in Elems(analytes) :
          \A k \in 1..Len(matched[v][a]) : PassesGates(matched[v][a][k])
    /\ args.require_species \/ args.require_samples \/ args.require_elisa =>
          \A k \in 1..Len(pagehits) : pagehits[k].final_url # U_NOTABCAM

\* --require-elisa alone: the page of notabcam.com was fetched and consumed
\* and gave no hit, other pages did
C10_Witness ==
    /\ args.require_elisa /\ ~args.require_species /\ ~args.require_samples
    /\ left_by = "exhausted"
    /\ \E i \in 1..Len(futs) :
          /\ futs[i].url = U_NOTABCAM
          /\ futs[i].outcome = "ok"
          /\ futs[i].result = None
    /\ pagehits # <<>>

(***************************************************************************)
(* The order of the hits                                                   *)
(***************************************************************************)
\* C13: the hits are accumulated in the order in which the loop consumes the
\* completions as_completed yields (a hit is appended at the end, and it is
\* the hit of the future just yielded), each list of the matrix holds the hits
\* of its vendor and analyte in that order, and the URL printed for a reported
\* vendor and an analyte is that of the first of them.
C13_FirstHitInConsumptionOrder ==
    /\ [][pagehits' # pagehits =>
            /\ pc = "consume" /\ finished # <<>>
            /\ finished' = Tail(finished)
            /\ pagehits' = Append(pagehits, result(futs[Head(finished)]))]_vars
    /\ [](pc = "reported" =>
            \A v \in DOMAIN matched : \A a \in Elems(analytes) :
                /\ matched[v][a] = HitsOf(v, a)
                /\ printed(matched[v], a) = Head(HitsOf(v, a)).final_url)

\* a report was printed for a vendor with two hits for one analyte, the hit
\* consumed first (the one whose URL is printed) being that of the task
\* submitted later
C13_Witness ==
    /\ pc = "reported"
    /\ \E v \in DOMAIN matched : \E a \in Elems(analytes) :
          /\ Len(matched[v][a]) = 2
          /\ matched[v][a][1].final_url # matched[v][a][2].final_url
          /\ printed(matched[v], a) = matched[v][a][1].final_url
          /\ \E i \in 1..Len(futs) : \E j \in (i + 1)..Len(futs) :
                /\ futs[j].result = matched[v][a][1]
                /\ futs[i].result = matched[v][a][2]

(***************************************************************************)
(* Aggregation by vendor                                                   *)
(***************************************************************************)
\* how often hit h stands in the list seq
Copies(seq, h) == Cardinality({i \in 1..Len(seq) : seq[i] = h})

\* C12: for a list of hits and any reordering of it, match_by_vendor returns
\* the same set of vendors and, for each of these vendors and each analyte,
\* the same hits the same number of times.
C12_OrderIndependent ==
    probe.op = "match_by_vendor" /\ probe.done =>
        /\ DOMAIN probe.out.first = DOMAIN probe.out.second
        /\ \A v \in DOMAIN probe.out.first : \A a \in {NOX4, CXCL10} : \A h \in Hits :
              Copies(probe.out.first[v][a], h) = Copies(probe.out.second[v][a], h)

\* a complete vendor with two hits for one analyte, which arrive in one order
\* in the first list and in the other order in the second
C12_Witness ==
    /\ probe.op = "match_by_vendor" /\ probe.done
    /\ V_A \in DOMAIN probe.out.first
    /\ probe.out.first[V_A][NOX4] = <<Hit(V_A, NOX4, "1"), Hit(V_A, NOX4, "2")>>
    /\ probe.out.second[V_A][NOX4] = <<Hit(V_A, NOX4, "2"), Hit(V_A, NOX4, "1")>>

(***************************************************************************)
(* Analyte detection                                                       *)
(***************************************************************************)
\* word w occurs in text s as a whole word, letter case apart: a stretch of s
\* spells w, and neither the character before it nor the one after it is a
\* letter, a digit or an underscore
Mentions(w, s) ==
    \E i \in 1..(Len(s) - Len(w) + 1) :
        /\ upper(SubSeq(s, i, i + Len(w) - 1)) = upper(w)
        /\ i = 1 \/ ~IsWordChar(s[i - 1])
        /\ i + Len(w) > Len(s) \/ ~IsWordChar(s[i + Len(w)])

\* the requested analytes whose name the blob mentions, by position in the list
Named(blob, an) == {i \in 1..Len(an) : Mentions(an[i], blob)}

\* the canonical names that are requested and have an alias the blob mentions
Aliased(blob, an) ==
    {aliases[k].canon : k \in {n \in 1..Len(aliases) :
        /\ aliases[n].canon \in Elems(an)
        /\ \E j \in 1..Len(aliases[n].alist) : Mentions(aliases[n].alist[j], blob)}}

\* C11: detect_analyte returns the first requested analyte, in the order of
\* the list, whose name occurs in the blob as a whole word; if there is none,
\* the canonical name of a requested analyte one of whose aliases occurs as a
\* whole word; if there is none either, None.  The label is therefore a
\* requested analyte or None.
C11_DetectionIsReference ==
    probe.op = "detect_analyte" /\ probe.done =>
        LET blob  == probe.x.blob
            an    == probe.x.analytes
            label == probe.out
        IN /\ IF Named(blob, an) # {}
              THEN label = an[Min(Named(blob, an))]
              ELSE IF Aliased(blob, an) # {}
                   THEN label \in Aliased(blob, an)
                   ELSE label = None
           /\ label # None => label \in Elems(an)

\* "NOX4 IP-10" has been classified for the analytes CXCL10, NOX4: the blob
\* names the second analyte and holds an alias of the first, and the label is
\* the named one
C11_Witness ==
    /\ probe.op = "detect_analyte" /\ probe.done
    /\ probe.x.analytes = <<CXCL10, NOX4>>
    /\ probe.x.blob = NOX4 \o <<" ">> \o <<"I","P","-","1","0">>
    /\ probe.out = NOX4

(***************************************************************************)
(* The empty domain set                                                    *)
(***************************************************************************)
\* the domain set of the run is empty: --domains was given without a domain
\* and there is no discovery, or the discovery is over and found no vendor.
\* (args.domains is <<>> for the empty list; main() only tests its truth
\* value (line 192), which is that of None.)
EmptyDomainSet ==
    \/ ~args.discover_domains /\ args.domains = <<>>
    \/ args.discover_domains /\ discovered = {}

\* C14: when the domain set of the run is empty, the collection runs without
\* a domain filter: there is no allow-set, and every http/https href a search
\* returns is passed on to add().
C14_EmptyDomainSetUnrestricted ==
    EmptyDomainSet /\ pc \in {"seed", "site", "submit"} =>
        /\ allow_domains = NoDomains
        /\ \A u \in returned : IsWeb(u) => offered[u] >= 1

(***************************************************************************)
(* The budget                                                              *)
(***************************************************************************)
\* C15: once a call of timed_out() has returned True, no search is issued,
\* no URL is added to the candidates, and no task that starts issues a GET:
\* it completes at once without a hit; a task whose GET is in flight is not
\* touched by the budget: it stays running until its GET returns or fails,
\* and its result is that of the GET.
C15_BudgetGatesNewWork ==
    /\ [](~queried_late)
    /\ [][observed' => candidates' = candidates]_vars
    /\ [][observed => \A i \in 1..Len(futs) :
            futs[i].state = "pending" =>
                \/ futs'[i] = futs[i]
                \/ /\ futs'[i].state = "finished"
                   /\ futs'[i].outcome = "late"
                   /\ futs'[i].result = None]_vars
    /\ [][\A i \in 1..Len(futs) :
            futs[i].state = "running" =>
                \/ futs'[i] = futs[i]
                \/ /\ futs'[i].state = "finished"
                   /\ futs'[i].outcome \in {"ok", "failed", "raised"}
                   /\ futs'[i].outcome = "ok" =>
                         futs'[i].result = worker(futs[i].url, FALSE, Web[futs[i].url])]_vars

(***************************************************************************)
(* One task per candidate                                                  *)
(***************************************************************************)
Dispatched == pc \in {"as_completed", "consume", "shutdown", "reported", "no_matches"}

\* C16: the tasks are submitted one per candidate, in the order of the list,
\* and once they are dispatched there is one task per candidate, for that
\* candidate, and the candidates are distinct URLs; a task issues its GET at
\* most once (it starts running from pending only, and once finished it
\* stays as it is, failed or not); each future is yielded at most once, and
\* each task accounts for at most one accumulated hit.
C16_AtMostOnce ==
    /\ [](/\ Len(futs) <= Len(candidates)
          /\ \A i \in 1..Len(futs) : futs[i].url = candidates[i]
          /\ \A i \in 1..Len(futs) : \A j \in 1..Len(futs) :
                 futs[i].url = futs[j].url => i = j
          /\ yielded <= Len(futs)
          /\ \A i \in 1..Len(futs) :
                 Cardinality({k \in 1..Len(pagehits) :
                                 pagehits[k].final_url = Web[futs[i].url].url}) <= 1
          /\ \A k \in 1..Len(pagehits) : \E i \in 1..Len(futs) :
                 pagehits[k] = futs[i].result)
    /\ [](Dispatched => Len(futs) = Len(candidates))
    /\ [][\A i \in 1..Len(futs) :
            /\ futs'[i].url = futs[i].url
            /\ futs'[i].state = "running" => futs[i].state \in {"pending", "running"}
            /\ futs[i].state = "finished" => futs'[i] = futs[i]]_vars

\* every task has run, one GET failed and was not issued again, and the two
\* other candidates account for one hit each
C16_Witness ==
    /\ pc \in {"reported", "no_matches"}
    /\ Len(futs) = 3 /\ Len(pagehits) = 2
    /\ \E i \in 1..Len(futs) : futs[i].outcome = "failed"

(***************************************************************************)
(* Discovery                                                               *)
(***************************************************************************)
\* the vendors of the http/https hrefs the discovery searches returned
FoundVendors == {VENDOR[u] : u \in {w \in found : IsWeb(w)}}

\* C17: in discovery mode, when the discovery searches returned an http/https
\* result, the allow-set of the collection that follows is the set of the
\* vendors of these results, in the seed rounds and in the site-scoped
\* rounds, whatever --domains says, and every candidate is an http/https URL
\* whose vendor is one of them or a subdomain of one of them.
C17_DiscoveredAllowSet ==
    args.discover_domains /\ pc \in {"seed", "site", "submit"} /\ FoundVendors # {} =>
        /\ allow_domains = FoundVendors
        /\ \A u \in Elems(candidates) :
              IsWeb(u) /\ \E d \in FoundVendors : SameOrSubdomain(VENDOR[u], d)

\* discovery found notabcam.com only, although --domains names abcam.com
\* too, and the site-scoped rounds run with a candidate of notabcam.com
C17_Witness ==
    /\ args.discover_domains /\ args.domains # <<>>
    /\ pc = "site"
    /\ FoundVendors = {VENDOR[U_NOTABCAM]}
    /\ candidates = <<U_NOTABCAM>>

(***************************************************************************)
(* The vendor of a URL                                                     *)
(***************************************************************************)
\* host h in lower case, without "www." if it begins with it
LeadingWwwStripped(h) ==
    LET l == lower(h)
    IN IF Len(l) >= 4 /\ SubSeq(l, 1, 4) = <<"w","w","w",".">>
       THEN SubSeq(l, 5, Len(l)) ELSE l

\* C18: the vendor of a URL is its host in lower case with a leading "www."
\* stripped and nothing else: a "www." further inside the host stays.
C18_OnlyLeadingWwwStripped ==
    probe.op = "vendor" /\ probe.done => probe.out = LeadingWwwStripped(probe.x.host)

(***************************************************************************)
(* What the early stop reports                                             *)
(***************************************************************************)
\* the vendors with a hit for NOX4 and a hit for CXCL10 in the list hits
CompleteIn(hits) ==
    {v \in {hits[k].vendor : k \in 1..Len(hits)} :
        \A a \in {NOX4, CXCL10} : \E k \in 1..Len(hits) :
            hits[k].vendor = v /\ hits[k].analyte = a}

\* C19: under --early-stop, as long as the loop runs no vendor is complete;
\* when the loop breaks for the early stop, the matrix reported has exactly
\* one vendor, the vendor of the hit accepted last, and that vendor is the
\* only complete one.
C19_EarlyStopReportsOneVendor ==
    probe.op = "loop" /\ probe.x.early_stop =>
        /\ ~probe.done /\ probe.out = None => CompleteIn(probe.x.pagehits) = {}
        /\ probe.done /\ probe.out.left_by = "early_stop" =>
              LET hits == probe.x.pagehits
              IN /\ DOMAIN probe.out.matched = {hits[Len(hits)].vendor}
                 /\ CompleteIn(hits) = {hits[Len(hits)].vendor}

\* the early stop has triggered at the fourth hit, for the second vendor,
\* when the first vendor had two hits for one analyte and none for the other
C19_Witness ==
    /\ probe.op = "loop" /\ probe.done
    /\ probe.out.left_by = "early_stop"
    /\ Len(probe.x.pagehits) = 4
    /\ probe.x.pagehits[1].vendor = V_A /\ probe.x.pagehits[2].vendor = V_A
    /\ DOMAIN probe.out.matched = {V_B}

(***************************************************************************)
(* Termination                                                             *)
(***************************************************************************)
\* C20: a run with at least two analytes and a pool of at least one worker
\* reaches its final output, the report or "No matches.", whatever the
\* candidates, the order of the completions and the moment the budget
\* expires, provided every search and every GET returns and the threads are
\* scheduled.  A run that a search ends by raising is set aside: the
\* searches of the others have all returned their results.
C20_Terminates ==
    (pc = "main" /\ Len(stripped(args.analytes)) >= 2 /\ args.workers >= 1)
        ~> (pc \in {"reported", "no_matches"} \cup SearchErrors)

=============================================================================
